---- MODULE Spec2Model ----
(***************************************************************************)
(* The stdio JSON-RPC dispatcher of mcp-server-gemini: the enhanced server *)
(* (src/src/enhanced-stdio-server.ts, newline-delimited framing) and the   *)
(* legacy server (src/src/stdio-server.ts, Content-Length framing).        *)
(*                                                                         *)
(* One step of the model is one run-to-completion piece of the Node event  *)
(* loop: the 'line' handler with the synchronous part of handleRequest,    *)
(* the run of the microtask queue, or the settlement of a provider         *)
(* promise together with the continuations it resumes.                     *)
(***************************************************************************)
EXTENDS Integers, Sequences, FiniteSets, TLC

\* Number of messages read from standard input in one run.
MaxRequests == 2

(***************************************************************************)
(* Optional values (a field that may be absent / undefined).               *)
(***************************************************************************)
None == {}
Some(x) == {x}
IsSome(o) == o # {}
The(o) == CHOOSE x \in o : TRUE

(***************************************************************************)
(* Wire vocabulary.                                                        *)
(***************************************************************************)
MethodNotFoundCode == -32601
InternalErrorCode == -32603

Variants == {"enhanced", "legacy"}

KnownMethods == {"initialize", "tools/list", "tools/call", "resources/list", "prompts/list"}
Methods == KnownMethods \cup {"unknown/method"}

\* switch cases of handleToolCall
EnhancedTools == {"generate_text", "analyze_image", "count_tokens", "list_models", "embed_text"}

\* Keys of the GEMINI_MODELS catalog.
GEMINI_MODELS == {"gemini-2.5-pro", "gemini-2.5-flash", "gemini-2.5-flash-lite",
                  "gemini-2.0-flash", "gemini-2.0-flash-lite", "gemini-2.0-pro-experimental",
                  "gemini-1.5-pro", "gemini-1.5-flash"}
DefaultModel == "gemini-2.5-flash"

\* Values a caller may give for the model argument, and for conversationId.
ModelArgs == {None, Some("no-such-model")}
ConvIds == {"s1", "s2"}
ConvArgs == {None} \cup {Some(c) : c \in ConvIds}

\* JavaScript truthiness of an optional string: undefined and "" are falsy.
Truthy(o) == IsSome(o) /\ The(o) # ""

(***************************************************************************)
(* Messages as JSON.parse returns them.  kind is "object" for an envelope, *)
(* "null" for the JSON value null and "primitive" for a number, string or  *)
(* boolean.  hasId tells whether the envelope has an 'id' member; the id   *)
(* itself is the position of the message in the input (callers use fresh   *)
(* ids).  The prompt or text of a tool call is identified the same way.    *)
(***************************************************************************)
NoArgs == [model |-> None, conversationId |-> None]
ArgsSet == [model : ModelArgs, conversationId : ConvArgs]

ParamsSet ==
    {[name |-> Some("generate_text"), arguments |-> Some(a)] : a \in ArgsSet}
    \cup {[name |-> Some(t), arguments |-> Some(NoArgs)] : t \in EnhancedTools \ {"generate_text"}}
    \cup {[name |-> Some(t), arguments |-> None] : t \in EnhancedTools}
    \cup {[name |-> Some("unknown_tool"), arguments |-> None]}
    \cup {[name |-> None, arguments |-> None]}

Envelopes ==
    {[kind |-> "object", hasId |-> h, method |-> m, params |-> None] :
        h \in BOOLEAN, m \in Methods}
    \cup {[kind |-> "object", hasId |-> h, method |-> "tools/call", params |-> Some(p)] :
        h \in BOOLEAN, p \in ParamsSet}

NonObjects ==
    {[kind |-> k, hasId |-> FALSE, method |-> "", params |-> None] : k \in {"null", "primitive"}}

\* What the input log keeps of a message: its kind, whether it has an id, its
\* method, the tool it names and the conversationId it gives.
LogEntry(msg) ==
    LET p == IF msg.params = None
             THEN [name |-> None, arguments |-> None]
             ELSE The(msg.params)
    IN [kind |-> msg.kind, hasId |-> msg.hasId, method |-> msg.method,
        tool |-> p.name,
        conv |-> IF p.arguments = None THEN None ELSE The(p.arguments).conversationId]

\* request.id of the r-th message
IdOf(msg, r) == IF msg.kind = "object" /\ msg.hasId THEN Some(r) ELSE None

VARIABLES
    variant,          \* which server was started
    requests,         \* log of the parsed messages handed to handleRequest, in order
    calls,            \* provider round-trips: request index -> call record
    microQ,           \* promise jobs that will resume a handleRequest
    output,           \* the envelopes written to stdout, in order
    conversations,    \* this.conversations: session id -> history
    settled,          \* request indices in the order their provider promise settled
    pendingRejection, \* a rejected handleRequest promise nobody handles
    crashed           \* the process was ended by an unhandled rejection

\* Module startup (the lines after the class).
VARIABLES
    apiKey,           \* process.env.GEMINI_API_KEY
    phase,            \* "boot", "serving" (the server is constructed) or "exited"
    exitStatus        \* the status given to process.exit

\* One tool handler looked at with its full argument surface.
VARIABLES
    probe             \* the last tool call and what its handler did with it

\* The byte stream on stdin and its decoding.
VARIABLES
    unicodeEol,       \* readline of this Node also ends lines at U+2028 / U+2029
    items,            \* what the peer wrote: lines (enhanced) or frames (legacy)
    pos,              \* number of code units of the stream read so far
    eof,              \* stdin has ended
    lineBuffer,       \* readline's unfinished line
    buffer,           \* StdioMCPServer.buffer
    dispatched        \* the values handed to handleRequest, in order

serverVars == <<variant, requests, calls, microQ, output, conversations, settled,
                pendingRejection, crashed>>
bootVars == <<apiKey, phase, exitStatus>>
wireVars == <<unicodeEol, items, pos, eof, lineBuffer, buffer, dispatched>>
auxVars == <<bootVars, probe, wireVars>>

vars == <<serverVars, auxVars>>

(***************************************************************************)
(* Conversation turns.  The text of a turn is identified by the request it *)
(* came from: <<"prompt", r>> is args.prompt of request r, <<"reply", r>>  *)
(* is result.text of its provider call.  The user turn built at lines      *)
(* 485-489 has no role member; the model turn of lines 533-538 has one.    *)
(***************************************************************************)
UserTurn(r) == [role |-> None, text |-> <<"prompt", r>>]
ModelTurn(r) == [role |-> Some("model"), text |-> <<"reply", r>>]

\* this.conversations.get(id) || []
GetHistory(store, cid) == IF cid \in DOMAIN store THEN store[cid] ELSE <<>>

\* BuildContents without the stored history.
BuildContentsNoHistory(store, convArg, userTurn) == <<userTurn>>

\* Lines 483-489 and 514-520: the contents sent to the provider.
BuildContents(store, convArg, userTurn) ==
    IF Truthy(convArg)
    THEN LET history == GetHistory(store, The(convArg))
         IN IF Len(history) > 0 THEN history \o <<userTurn>> ELSE <<userTurn>>
    ELSE <<userTurn>>

\* An update that keeps only the latest exchange of a session.
UpdateHistoryLastExchange(store, convArg, contents, modelTurn) ==
    IF Truthy(convArg)
    THEN LET cid == The(convArg)
         IN [c \in DOMAIN store \cup {cid} |->
                IF c = cid THEN <<contents[Len(contents)], modelTurn>> ELSE store[c]]
    ELSE store

\* An update that writes back the history read at dispatch plus the new
\* exchange, whatever the store holds by now.
UpdateHistoryFromSnapshot(store, convArg, contents, modelTurn) ==
    IF Truthy(convArg)
    THEN LET cid == The(convArg)
         IN [c \in DOMAIN store \cup {cid} |->
                IF c = cid THEN contents \o <<modelTurn>> ELSE store[c]]
    ELSE store

\* An update that leaves out the model turn.
UpdateHistoryWithoutReply(store, convArg, contents, modelTurn) ==
    IF Truthy(convArg)
    THEN LET cid == The(convArg)
         IN [c \in DOMAIN store \cup {cid} |->
                IF c = cid THEN GetHistory(store, cid) \o contents ELSE store[c]]
    ELSE store

\* An update that files a call without conversationId under a default key.
UpdateHistoryDefaultSession(store, convArg, contents, modelTurn) ==
    LET cid == IF Truthy(convArg) THEN The(convArg) ELSE "default"
    IN [c \in DOMAIN store \cup {cid} |->
           IF c = cid THEN GetHistory(store, cid) \o contents \o <<modelTurn>> ELSE store[c]]

\* Lines 529-540: what a successful generate call stores.  history.push
\* receives requestBody.contents, which already starts with the history read
\* at dispatch.
UpdateHistory(store, convArg, contents, modelTurn) ==
    IF Truthy(convArg)
    THEN LET cid == The(convArg)
             history == GetHistory(store, cid) \o contents \o <<modelTurn>>
         IN [c \in DOMAIN store \cup {cid} |-> IF c = cid THEN history ELSE store[c]]
    ELSE store

\* A failure path that stores the turns sent to the provider.
StoreContentsOnFailure(store, convArg, contents) ==
    IF Truthy(convArg)
    THEN LET cid == The(convArg)
         IN [c \in DOMAIN store \cup {cid} |->
                IF c = cid THEN GetHistory(store, cid) \o contents ELSE store[c]]
    ELSE store

\* Lines 558-568: the catch block of generateText does not touch the store.
ConversationsAfterFailure(store, convArg, contents) == store

(***************************************************************************)
(* Response envelopes.  result and error are optional members; req is the  *)
(* position of the request the envelope answers (not on the wire).         *)
(***************************************************************************)
Err(code, message) == Some([code |-> code, message |-> message])
Response(r, id, result, error) == [req |-> r, id |-> id, result |-> result, error |-> error]

\* the static cases of the router switch
StaticResult(r, msg, tag) ==
    Response(r, IdOf(msg, r), Some([tag |-> tag, text |-> <<>>]), None)
\* The default case answering with the internal-error code.
MethodNotFoundAsInternal(r, msg) ==
    Response(r, IdOf(msg, r), None, Err(InternalErrorCode, "Method not found"))

\* the default case of the router switch
MethodNotFound(r, msg) == Response(r, IdOf(msg, r), None, Err(MethodNotFoundCode, "Method not found"))
\* The default case of handleToolCall answering with the internal-error code.
UnknownToolAsInternal(r, msg) ==
    Response(r, IdOf(msg, r), None, Err(InternalErrorCode, "Unknown tool"))

\* the default case of handleToolCall
UnknownTool(r, msg) == Response(r, IdOf(msg, r), None, Err(MethodNotFoundCode, "Unknown tool"))
\* the success return of a tool handler
HandlerResult(r, id, text) ==
    Response(r, id, Some([tag |-> "content", text |-> text]), None)
\* the catch block of a tool handler
HandlerError(r, id, message) == Response(r, id, None, Err(InternalErrorCode, message))
\* A router catch that also fills in a result member.
RouterCatchWithResult(r, msg, message) ==
    Response(r, IdOf(msg, r), Some([tag |-> "content", text |-> <<>>]),
             Err(InternalErrorCode, message))

\* the catch block of handleRequest
RouterCatch(r, msg, message) == Response(r, IdOf(msg, r), None, Err(InternalErrorCode, message))

\* Writing envelopes in the order of their requests.
sendInRequestOrder(out, resp) ==
    SelectSeq(out, LAMBDA x : x.req <= resp.req) \o <<resp>>
        \o SelectSeq(out, LAMBDA x : x.req > resp.req)

\* process.stdout.write of one envelope
sendResponse(out, resp) == Append(out, resp)

(***************************************************************************)
(* What the synchronous part of handleRequest comes to:                    *)
(*   send       the envelope is written before the handler returns         *)
(*   drop       nothing is written                                         *)
(*   micro      the envelope is written after `hops` promise jobs          *)
(*   provider   a provider round-trip was started                          *)
(*   unhandled  the promise of handleRequest is rejected                   *)
(***************************************************************************)
NoResp == Response(0, None, None, None)
NoCall == [op |-> "", tool |-> "", conv |-> None, contents |-> <<>>, status |-> ""]
Send(resp) == [type |-> "send", resp |-> resp, hops |-> 0, call |-> NoCall]
Drop == [type |-> "drop", resp |-> NoResp, hops |-> 0, call |-> NoCall]
Micro(resp, hops) == [type |-> "micro", resp |-> resp, hops |-> hops, call |-> NoCall]
Provider(op, tool, conv, contents) ==
    [type |-> "provider", resp |-> NoResp, hops |-> 0,
     call |-> [op |-> op, tool |-> tool, conv |-> conv, contents |-> contents,
               status |-> "awaiting"]]
Unhandled == [type |-> "unhandled", resp |-> NoResp, hops |-> 0, call |-> NoCall]

\* generateText up to its await.  A handler that settles without a provider
\* call reaches sendResponse two promise jobs later (the await of
\* handleToolCall, then the await of handleRequest).
generateText(r, id, args, store) ==
    IF args = None
    THEN Micro(HandlerError(r, id, "TypeError"), 2)
    ELSE LET a == The(args)
             model == IF Truthy(a.model) THEN The(a.model) ELSE DefaultModel
         IN IF model \notin GEMINI_MODELS
            THEN Micro(HandlerError(r, id, "Unknown model"), 2)
            ELSE Provider("generateContent", "generate_text", a.conversationId,
                          BuildContents(store, a.conversationId, UserTurn(r)))

\* analyzeImage, countTokens and embedText up to their await.
providerTool(r, id, args, tool, op) ==
    IF args = None
    THEN Micro(HandlerError(r, id, "TypeError"), 2)
    ELSE Provider(op, tool, None, <<UserTurn(r)>>)

\* listModels is synchronous and reads args?.filter.
listModels(r, id, args) == Micro(HandlerResult(r, id, <<"models">>), 1)

\* A dispatcher whose switch has no case for embed_text.
handleToolCallWithoutEmbed(r, msg, store) ==
    LET name == IF msg.params = None THEN None ELSE The(msg.params).name
        args == IF msg.params = None THEN None ELSE The(msg.params).arguments
        id == IdOf(msg, r)
    IN CASE name = Some("generate_text") -> generateText(r, id, args, store)
         [] name = Some("analyze_image") -> providerTool(r, id, args, "analyze_image", "generateContent")
         [] name = Some("count_tokens") -> providerTool(r, id, args, "count_tokens", "countTokens")
         [] name = Some("list_models") -> listModels(r, id, args)
         [] OTHER -> Micro(UnknownTool(r, msg), 1)

\* EnhancedStdioMCPServer.handleToolCall: the switch on the tool name.
handleToolCall(r, msg, store) ==
    LET name == IF msg.params = None THEN None ELSE The(msg.params).name
        args == IF msg.params = None THEN None ELSE The(msg.params).arguments
        id == IdOf(msg, r)
    IN CASE name = Some("generate_text") -> generateText(r, id, args, store)
         [] name = Some("analyze_image") -> providerTool(r, id, args, "analyze_image", "generateContent")
         [] name = Some("count_tokens") -> providerTool(r, id, args, "count_tokens", "countTokens")
         [] name = Some("list_models") -> listModels(r, id, args)
         [] name = Some("embed_text") -> providerTool(r, id, args, "embed_text", "embedContent")
         [] OTHER -> Micro(UnknownTool(r, msg), 1)

\* The default case of the enhanced router: a message without an 'id'
\* member is logged as a notification and dropped.  The `in` operator throws
\* a TypeError on a primitive, which the router catch turns into an envelope.
EnhancedDefault(r, msg) ==
    IF msg.kind = "primitive"
    THEN Send(RouterCatch(r, msg, "TypeError"))
    ELSE IF ~msg.hasId THEN Drop ELSE Send(MethodNotFound(r, msg))

\* EnhancedStdioMCPServer.handleRequest up to its first await.  Line 91 reads
\* request.method before the try block is entered.
EnhancedHandleRequest(r, msg, store) ==
    IF msg.kind = "null" THEN Unhandled
    ELSE IF msg.kind = "primitive" THEN EnhancedDefault(r, msg)
    ELSE CASE msg.method = "initialize" -> Send(StaticResult(r, msg, "initialize"))
           [] msg.method = "tools/list" -> Send(StaticResult(r, msg, "tools"))
           [] msg.method = "tools/call" -> handleToolCall(r, msg, store)
           [] msg.method = "resources/list" -> Send(StaticResult(r, msg, "resources"))
           [] msg.method = "prompts/list" -> Send(StaticResult(r, msg, "prompts"))
           [] OTHER -> EnhancedDefault(r, msg)

\* The tools/call case of the legacy router.
LegacyToolCall(r, msg) ==
    LET name == IF msg.params = None THEN None ELSE The(msg.params).name
        args == IF msg.params = None THEN None ELSE The(msg.params).arguments
    IN IF name = Some("generate_text")
       THEN IF args = None
            THEN Send(RouterCatch(r, msg, "TypeError"))
            ELSE Provider("generateContent", "generate_text", None, <<UserTurn(r)>>)
       ELSE Send(MethodNotFound(r, msg))

\* StdioMCPServer.handleRequest up to its first await.  On null the switch
\* throws inside the try block and the catch block throws again reading
\* request.id.
LegacyHandleRequest(r, msg) ==
    IF msg.kind = "null" THEN Unhandled
    ELSE IF msg.kind = "primitive" THEN Send(MethodNotFound(r, msg))
    ELSE CASE msg.method = "initialize" -> Send(StaticResult(r, msg, "initialize"))
           [] msg.method = "tools/list" -> Send(StaticResult(r, msg, "tools"))
           [] msg.method = "tools/call" -> LegacyToolCall(r, msg)
           [] OTHER -> Send(MethodNotFound(r, msg))

HandleRequest(v, r, msg, store) ==
    IF v = "enhanced" THEN EnhancedHandleRequest(r, msg, store) ELSE LegacyHandleRequest(r, msg)

\* A failure envelope built without the id of the request.
FailureResponseNoId(v, r, msg) ==
    Response(r, None, None, Err(InternalErrorCode, "provider error"))

\* The envelope a settled provider call leads to.
SuccessResponse(v, r, msg) == HandlerResult(r, IdOf(msg, r), <<"reply", r>>)
FailureResponse(v, r, msg) ==
    IF v = "enhanced" THEN HandlerError(r, IdOf(msg, r), "provider error")
    ELSE RouterCatch(r, msg, "provider error")

(***************************************************************************)
(* State machine.                                                          *)
(***************************************************************************)
\* The fields of a server right after its constructor.
ServerConstructed ==
    /\ variant \in Variants
    /\ requests = <<>>
    /\ calls = <<>>
    /\ microQ = <<>>
    /\ output = <<>>
    /\ conversations = <<>>
    /\ settled = <<>>
    /\ pendingRejection = FALSE
    /\ crashed = FALSE

\* The credential was there and the server has been constructed.
Booted ==
    /\ apiKey = Some("key")
    /\ phase = "serving"
    /\ exitStatus = None

\* No handler is under the lens.
NoProbe == [tool |-> "", args |-> None, handled |-> FALSE, called |-> FALSE,
            request |-> None, response |-> None]
ProbeIdle == probe = NoProbe

\* Nothing has been written to stdin.
WireIdle ==
    /\ unicodeEol = FALSE
    /\ items = <<>>
    /\ pos = 0
    /\ eof = FALSE
    /\ lineBuffer = <<>>
    /\ buffer = <<>>
    /\ dispatched = <<>>

Init == ServerConstructed /\ Booted /\ ProbeIdle /\ WireIdle

\* The 'line' handler on a line that parses: JSON.parse, then handleRequest
\* up to its first await.
Receive(msg) ==
    /\ ~crashed
    /\ Len(requests) < MaxRequests
    /\ LET r == Len(requests) + 1
           o == HandleRequest(variant, r, msg, conversations)
       IN /\ requests' = Append(requests, LogEntry(msg))
          /\ output' = IF o.type = "send" THEN sendResponse(output, o.resp) ELSE output
          /\ microQ' = IF o.type = "micro"
                       THEN Append(microQ, [resp |-> o.resp, hops |-> o.hops])
                       ELSE microQ
          /\ calls' = IF o.type = "provider" THEN calls @@ (r :> o.call) ELSE calls
          /\ pendingRejection' = (pendingRejection \/ o.type = "unhandled")
    /\ UNCHANGED <<variant, conversations, settled, crashed>>
    /\ UNCHANGED auxVars

ReceiveEnvelope == \E msg \in Envelopes : Receive(msg)
ReceiveNonObject == \E msg \in NonObjects : Receive(msg)

\* The microtask queue after the line handlers of one input chunk have
\* returned: the jobs run in FIFO order until the queue is empty; a job that
\* resumes handleToolCall queues the job that resumes handleRequest, and that
\* last job calls sendResponse.  No line handler and no provider settlement
\* runs in between.
RECURSIVE DrainJobs(_, _)
DrainJobs(queue, out) ==
    IF queue = <<>> THEN out
    ELSE LET job == Head(queue)
         IN IF job.hops > 1
            THEN DrainJobs(Append(Tail(queue), [job EXCEPT !.hops = job.hops - 1]), out)
            ELSE DrainJobs(Tail(queue), sendResponse(out, job.resp))

RunMicrotasks ==
    /\ ~crashed
    /\ microQ # <<>>
    /\ microQ' = <<>>
    /\ output' = DrainJobs(microQ, output)
    /\ UNCHANGED <<variant, requests, calls, conversations, settled, pendingRejection, crashed>>
    /\ UNCHANGED auxVars

\* A provider promise settles in a later turn of the event loop, when the
\* microtask queue is empty; the continuations up to sendResponse run in
\* that turn.
CanSettle(r) ==
    /\ ~crashed
    /\ ~pendingRejection
    /\ microQ = <<>>
    /\ r \in DOMAIN calls
    /\ calls[r].status = "awaiting"

ProviderSucceed(r) ==
    /\ CanSettle(r)
    /\ calls' = [calls EXCEPT ![r].status = "succeeded"]
    /\ conversations' = IF calls[r].tool = "generate_text" /\ variant = "enhanced"
                        THEN UpdateHistory(conversations, calls[r].conv, calls[r].contents,
                                           ModelTurn(r))
                        ELSE conversations
    /\ output' = sendResponse(output, SuccessResponse(variant, r, requests[r]))
    /\ settled' = Append(settled, r)
    /\ UNCHANGED <<variant, requests, microQ, pendingRejection, crashed>>
    /\ UNCHANGED auxVars

ProviderFail(r) ==
    /\ CanSettle(r)
    /\ calls' = [calls EXCEPT ![r].status = "failed"]
    /\ conversations' = IF calls[r].tool = "generate_text" /\ variant = "enhanced"
                        THEN ConversationsAfterFailure(conversations, calls[r].conv,
                                                       calls[r].contents)
                        ELSE conversations
    /\ output' = sendResponse(output, FailureResponse(variant, r, requests[r]))
    /\ settled' = Append(settled, r)
    /\ UNCHANGED <<variant, requests, microQ, pendingRejection, crashed>>
    /\ UNCHANGED auxVars

\* Node processes rejected promises without a handler once the microtask
\* queue is drained: it ends the process (unhandled-rejections=throw, the
\* default since Node 15) or only warns (older Node, or =warn).
ProcessRejections ==
    /\ ~crashed
    /\ pendingRejection
    /\ microQ = <<>>
    /\ pendingRejection' = FALSE
    /\ crashed' \in BOOLEAN
    /\ UNCHANGED <<variant, requests, calls, microQ, output, conversations, settled>>
    /\ UNCHANGED auxVars

Next ==
    \/ ReceiveEnvelope
    \/ ReceiveNonObject
    \/ RunMicrotasks
    \/ \E r \in 1..MaxRequests : ProviderSucceed(r)
    \/ \E r \in 1..MaxRequests : ProviderFail(r)
    \/ ProcessRejections

Spec == Init /\ [][Next]_vars

\* Only well-formed envelopes arrive, every promise job runs and every
\* provider promise settles.
LiveNext ==
    \/ ReceiveEnvelope
    \/ RunMicrotasks
    \/ \E r \in 1..MaxRequests : ProviderSucceed(r)
    \/ \E r \in 1..MaxRequests : ProviderFail(r)

Fairness ==
    /\ WF_vars(RunMicrotasks)
    /\ \A r \in 1..MaxRequests : WF_vars(ProviderSucceed(r) \/ ProviderFail(r))

LiveSpec == Init /\ [][LiveNext]_vars /\ Fairness

(***************************************************************************)
(* Properties.                                                             *)
(***************************************************************************)
Received == 1..Len(requests)
Written == 1..Len(output)
IsEnvelope(r) == requests[r].kind = "object"
CarriesId(r) == IsEnvelope(r) /\ requests[r].hasId
IsNotification(r) == IsEnvelope(r) /\ ~requests[r].hasId
\* positions in the output of the envelopes whose id is i
WrittenWithId(i) == {k \in Written : output[k].id = Some(i)}
\* positions in the output of the envelopes that answer request r
AnswersTo(r) == {k \in Written : output[k].req = r}

\* C1 safety part: every id on the output is the id of a received request
\* that carried one, and no id is on the output twice.
C1_IdsCorrelate ==
    \A k \in Written :
        IsSome(output[k].id) =>
            LET i == The(output[k].id)
            IN /\ i \in Received
               /\ CarriesId(i)
               /\ Cardinality(WrittenWithId(i)) = 1

\* C1: with only well-formed envelopes arriving, every request that carries
\* an id is eventually answered by exactly one envelope with that id and it
\* stays that way (a received request stays received, so this is "received
\* leads to answered exactly once, for good"); no id is answered twice and
\* no envelope carries an id no request carried.
C1_ExactlyOneResponse ==
    /\ []C1_IdsCorrelate
    /\ \A r \in 1..MaxRequests :
          <>[]((r \in Received /\ CarriesId(r)) => Cardinality(WrittenWithId(r)) = 1)

\* C1 witness: a call whose provider round-trip failed and a call whose
\* round-trip succeeded have both been answered under their own ids.
C1_Witness ==
    \E a, b \in DOMAIN calls :
        /\ calls[a].status = "failed" /\ calls[b].status = "succeeded"
        /\ CarriesId(a) /\ CarriesId(b)
        /\ Cardinality(WrittenWithId(a)) = 1
        /\ Cardinality(WrittenWithId(b)) = 1

\* C2: no envelope is ever written in answer to a notification (an envelope
\* without an id), whatever its method.
C2_NoResponseToNotification ==
    \A r \in Received : IsNotification(r) => AnswersTo(r) = {}

\* C3: no message makes handleRequest fail without a handler: there is never
\* an unhandled rejected promise and the process is never ended by one.
C3_NoUnhandledFailure == ~pendingRejection /\ ~crashed

\* C4: every envelope written has exactly one of result and error.
C4_ResultXorError ==
    \A k \in Written : IsSome(output[k].result) # IsSome(output[k].error)

\* C4 witness: the output holds the result of a tool call and an
\* internal-error envelope.
C4_Witness ==
    /\ \E k \in Written : IsSome(output[k].result) /\ The(output[k].result).tag = "content"
    /\ \E k \in Written :
          /\ IsSome(output[k].error)
          /\ The(output[k].error).code = InternalErrorCode

(***************************************************************************)
(* Generate calls and the conversation store.                              *)
(***************************************************************************)
\* the logged message is a tools/call of generate_text
IsGenerate(entry) ==
    /\ entry.kind = "object"
    /\ entry.method = "tools/call"
    /\ entry.tool = Some("generate_text")
\* the conversationId argument of a generate request (None when absent)
ConvOf(entry) == IF IsGenerate(entry) THEN entry.conv ELSE None
\* the step dispatches message number Len(requests) + 1
Dispatching == Len(requests') = Len(requests) + 1
\* the step settles the provider call of request r
Succeeding(r) ==
    r \in DOMAIN calls /\ calls[r].status = "awaiting" /\ calls'[r].status = "succeeded"
Failing(r) ==
    r \in DOMAIN calls /\ calls[r].status = "awaiting" /\ calls'[r].status = "failed"
SessionCall(r) ==
    variant = "enhanced" /\ calls[r].tool = "generate_text" /\ Truthy(calls[r].conv)

\* C5: a successful generate call that names a session appends exactly the
\* new user turn and the returned model turn to that session's history.
C5_GrowsByTwoTurns ==
    [][\A r \in 1..MaxRequests :
          (Succeeding(r) /\ SessionCall(r)) =>
              LET cid == The(calls[r].conv)
              IN /\ cid \in DOMAIN conversations'
                 /\ conversations'[cid] =
                        GetHistory(conversations, cid) \o <<UserTurn(r), ModelTurn(r)>>]_vars

\* C6: a generate call that names a session and fails, at the provider or
\* before the provider is called, leaves the conversation store as it was.
C6_FailureKeepsStore ==
    [][/\ \A r \in 1..MaxRequests :
             (Failing(r) /\ SessionCall(r)) => conversations' = conversations
       /\ (/\ Dispatching
           /\ variant = "enhanced"
           /\ Truthy(ConvOf(requests'[Len(requests')]))
           /\ Len(requests') \notin DOMAIN calls')
              => /\ conversations' = conversations
                 /\ microQ' # microQ]_vars

\* C6 witness: a generate call naming a session the store does not hold
\* has failed at the provider, and the store still does not hold it.
C6_Witness ==
    /\ variant = "enhanced"
    /\ \E r \in DOMAIN calls :
          /\ calls[r].status = "failed"
          /\ calls[r].tool = "generate_text"
          /\ Truthy(calls[r].conv)
          /\ The(calls[r].conv) \notin DOMAIN conversations

\* C7: the contents a generate call sends to the provider are the session's
\* stored history at dispatch, in stored order, followed by the new user
\* turn; without a session identifier they are the new user turn alone.
C7_ContextIsHistoryPlusTurn ==
    [][\A r \in 1..MaxRequests :
          (/\ Dispatching
           /\ r = Len(requests')
           /\ IsGenerate(requests'[r])
           /\ r \in DOMAIN calls')
              => LET conv == ConvOf(requests'[r])
                     stored == IF variant = "enhanced" /\ Truthy(conv)
                               THEN GetHistory(conversations, The(conv))
                               ELSE <<>>
                 IN /\ calls'[r].contents = stored \o <<UserTurn(r)>>
                    /\ Len(calls'[r].contents) = Len(stored) + 1]_vars

\* C7 witness: a generate call was dispatched on a session with stored
\* turns, and another one without a session identifier.
C7_Witness ==
    /\ \E r \in DOMAIN calls :
          /\ calls[r].tool = "generate_text"
          /\ Truthy(calls[r].conv)
          /\ calls[r].status = "awaiting"
          /\ Len(calls[r].contents) > 1
          /\ The(calls[r].conv) \in DOMAIN conversations
          /\ Len(calls[r].contents) = Len(conversations[The(calls[r].conv)]) + 1

\* C8: at no time are two generate calls for the same session between their
\* history read (dispatch) and their history append (settlement).
C8_SerializedPerSession ==
    \A a, b \in DOMAIN calls :
        (/\ a # b
         /\ SessionCall(a) /\ SessionCall(b)
         /\ calls[a].status = "awaiting" /\ calls[b].status = "awaiting")
            => calls[a].conv # calls[b].conv

\* the envelopes that answer provider calls, in output order
ProviderResponses == SelectSeq(output, LAMBDA resp : resp.req \in DOMAIN calls)

\* C9: the envelopes answering provider calls are on the output in the order
\* in which the provider round-trips finished, each with the id of its own
\* request and, on success, the reply of its own round-trip.
C9_CompletionOrder ==
    /\ Len(ProviderResponses) = Len(settled)
    /\ \A k \in 1..Len(settled) :
          LET r == settled[k]
              resp == ProviderResponses[k]
          IN /\ resp.id = IdOf(requests[r], r)
             /\ calls[r].status = "succeeded" =>
                    (resp.result # None /\ The(resp.result).text = <<"reply", r>>)
             /\ calls[r].status = "failed" => resp.error # None

\* C9 witness: two tool calls with ids were in flight together, the one
\* dispatched later finished first and both have been answered.
C9_Witness ==
    /\ settled = <<2, 1>>
    /\ CarriesId(1) /\ CarriesId(2)
    /\ calls[1].status = "succeeded" /\ calls[2].status = "succeeded"
    /\ Len(output) = 2
    /\ output[1].id = Some(2) /\ output[2].id = Some(1)

\* C10: a request with an id and an unknown method is answered at once with
\* error code -32601, and nothing else changes: no provider call, no store
\* change, no pending job.
C10_UnknownMethod ==
    [][(/\ Dispatching
        /\ requests'[Len(requests')].kind = "object"
        /\ requests'[Len(requests')].hasId
        /\ requests'[Len(requests')].method \notin KnownMethods)
           => LET r == Len(requests')
              IN /\ Len(output') = Len(output) + 1
                 /\ SubSeq(output', 1, Len(output)) = output
                 /\ output'[Len(output')].id = Some(r)
                 /\ output'[Len(output')].result = None
                 /\ output'[Len(output')].error # None
                 /\ The(output'[Len(output')].error).code = MethodNotFoundCode
                 /\ UNCHANGED <<calls, conversations, microQ, settled,
                                pendingRejection, crashed>>]_vars

\* C10 witness: a request with an id and an unknown method has been answered.
C10_Witness ==
    \E r \in Received :
        /\ CarriesId(r)
        /\ requests[r].method \notin KnownMethods
        /\ AnswersTo(r) # {}

\* The tool names a server's tools/call case dispatches to a handler.
DispatchedTools(v) == IF v = "enhanced" THEN EnhancedTools ELSE {"generate_text"}

\* positions in the output of the error envelopes answering a tools/call request
ToolCallErrors ==
    {k \in Written : /\ output[k].error # None
                     /\ IsEnvelope(output[k].req)
                     /\ requests[output[k].req].method = "tools/call"}
NamesDispatchedTool(r) ==
    \E t \in DispatchedTools(variant) : requests[r].tool = Some(t)

\* C11 as stated: every failure of a tools/call request carries the
\* internal-error code -32603, and -32601 answers only an unknown top-level
\* method.
C11_OneCodeForToolFailures ==
    /\ \A k \in ToolCallErrors : The(output[k].error).code = InternalErrorCode
    /\ \A k \in Written :
          (output[k].error # None /\ The(output[k].error).code = MethodNotFoundCode)
              => (IsEnvelope(output[k].req) => requests[output[k].req].method \notin KnownMethods)

\* C11 amended: a failed tools/call request is answered with -32601 when
\* the tool name is not one the server dispatches (or is missing), and with
\* -32603 when a dispatched handler failed (missing arguments, unknown model,
\* provider exception).
C11_ToolCallErrorCodes ==
    \A k \in ToolCallErrors :
        The(output[k].error).code =
            IF NamesDispatchedTool(output[k].req) THEN InternalErrorCode ELSE MethodNotFoundCode

\* C11 witness: an unknown tool name has been answered with -32601 and a
\* failed generate_text call with -32603.
C11_Witness ==
    /\ \E k \in ToolCallErrors :
          /\ requests[output[k].req].tool = Some("unknown_tool")
          /\ The(output[k].error).code = MethodNotFoundCode
    /\ \E k \in ToolCallErrors :
          /\ requests[output[k].req].tool = Some("generate_text")
          /\ The(output[k].error).code = InternalErrorCode

(***************************************************************************)
(* The tool handlers of the enhanced server with their full arguments.     *)
(***************************************************************************)
\* longest imageBase64 string, in tokens
MaxDataLen == 5

\* One entry of GEMINI_MODELS; `thinking` is a member only some entries have.
Entry(name, features, thinking) ==
    [name |-> name, features |-> features, thinking |-> thinking]

\* Object.entries(GEMINI_MODELS), in insertion order.
ModelCatalog ==
    << Entry("gemini-2.5-pro",
             {"thinking", "function_calling", "json_mode", "grounding", "system_instructions"},
             Some(TRUE)),
       Entry("gemini-2.5-flash",
             {"thinking", "function_calling", "json_mode", "grounding", "system_instructions"},
             Some(TRUE)),
       Entry("gemini-2.5-flash-lite",
             {"thinking", "function_calling", "json_mode", "system_instructions"},
             Some(TRUE)),
       Entry("gemini-2.0-flash",
             {"function_calling", "json_mode", "grounding", "system_instructions"}, None),
       Entry("gemini-2.0-flash-lite",
             {"function_calling", "json_mode", "system_instructions"}, None),
       Entry("gemini-2.0-pro-experimental",
             {"function_calling", "json_mode", "grounding", "system_instructions"}, None),
       Entry("gemini-1.5-pro",
             {"function_calling", "json_mode", "system_instructions"}, None),
       Entry("gemini-1.5-flash",
             {"function_calling", "json_mode", "system_instructions"}, None) >>

\* inputSchema.required of each tool descriptor
RequiredFields(tool) ==
    CASE tool = "generate_text" -> {"prompt"}
      [] tool = "analyze_image" -> {"prompt"}
      [] tool = "count_tokens" -> {"text"}
      [] tool = "embed_text" -> {"text"}
      [] OTHER -> {}

\* inputSchema.properties.model.enum of each tool descriptor
ModelEnum(tool) ==
    CASE tool = "generate_text" -> GEMINI_MODELS
      [] tool = "analyze_image" -> {"gemini-2.5-pro", "gemini-2.5-flash", "gemini-2.0-flash"}
      [] tool = "count_tokens" -> GEMINI_MODELS
      [] tool = "embed_text" -> {"text-embedding-004", "text-multilingual-embedding-002"}
      [] OTHER -> {}

\* inputSchema.properties.filter.enum of list_models
FilterEnum == {"all", "thinking", "vision", "grounding", "json_mode"}

\* The pieces an imageBase64 string is made of: the literal prefix, a mime
\* type, the literal separator, a run of base64 characters, a line feed.
DataTokens == {"data:", "image/png", ";base64,", "AAAA", "<LF>"}
DataStrings == UNION {[1..n -> DataTokens] : n \in 0..MaxDataLen}

\* The arguments object of a tools/call; a member left out is None.
NoToolArgs == [prompt |-> None, text |-> None, model |-> None,
               imageUrl |-> None, imageBase64 |-> None, filter |-> None,
               temperature |-> None, maxTokens |-> None, topK |-> None, topP |-> None]
PromptArgs == {None, Some("describe")}
ModelChoices == {None, Some("gemini-2.5-pro"), Some("gemini-1.5-pro"),
                 Some("text-embedding-004"), Some("no-such-model")}
ImageUrlArgs == {None, Some("http://host/cat.png")}
\* A generation control: left out, zero, or a non-zero number.  temperature
\* and topP are counted in hundredths (150 is 1.5, 50 is 0.5).
TemperatureArgs == {None, Some(0), Some(150)}
MaxTokensArgs == {None, Some(0), Some(100)}
TopKArgs == {None, Some(0), Some(10)}
TopPArgs == {None, Some(0), Some(50)}
FilterArgs == {None, Some("")} \cup {Some(f) : f \in FilterEnum \cup {"no-such-filter"}}

ArgumentsOf(tool) ==
    CASE tool = "generate_text" ->
           {[NoToolArgs EXCEPT !.prompt = p, !.model = m, !.temperature = t,
                               !.maxTokens = n, !.topK = k, !.topP = q] :
               p \in PromptArgs, m \in ModelChoices, t \in TemperatureArgs,
               n \in MaxTokensArgs, k \in TopKArgs, q \in TopPArgs}
      [] tool = "analyze_image" ->
           {[NoToolArgs EXCEPT !.prompt = p, !.model = m, !.imageUrl = u, !.imageBase64 = b] :
               p \in PromptArgs, m \in ModelChoices \ {Some("text-embedding-004")},
               u \in ImageUrlArgs, b \in {None} \cup {Some(d) : d \in DataStrings}}
      [] tool = "count_tokens" ->
           {[NoToolArgs EXCEPT !.text = t, !.model = m] : t \in PromptArgs, m \in ModelChoices}
      [] tool = "embed_text" ->
           {[NoToolArgs EXCEPT !.text = t, !.model = m] : t \in PromptArgs, m \in ModelChoices}
      [] OTHER ->
           {[NoToolArgs EXCEPT !.filter = f] : f \in FilterArgs}

\* request.params.arguments: absent, or an object
ToolArguments(tool) == {None} \cup {Some(a) : a \in ArgumentsOf(tool)}

\* The parts of a provider request.  `text` is None where the handler
\* passed on an undefined member.
TextPart(text) == [kind |-> "text", text |-> text, mimeType |-> <<>>, data |-> <<>>]
UrlPart(url) == [kind |-> "imageUrlText", text |-> url, mimeType |-> <<>>, data |-> <<>>]
InlinePart(mimeType, data) ==
    [kind |-> "inlineData", text |-> None, mimeType |-> mimeType, data |-> data]
UndefinedPart == [kind |-> "undefined", text |-> None, mimeType |-> <<>>, data |-> <<>>]

\* What a handler did up to its await: called the provider, or returned.
\* `config` is the generationConfig member of the request, None where the
\* handler sends none.
CalledWithConfig(op, model, parts, config) ==
    [called |-> TRUE,
     request |-> Some([op |-> op, model |-> model, parts |-> parts, config |-> config]),
     response |-> None]
Called(op, model, parts) == CalledWithConfig(op, model, parts, None)
Returned(error, models, filter) ==
    [called |-> FALSE,
     request |-> None,
     response |-> Some([error |-> error, models |-> models,
                        count |-> Len(models), filter |-> filter])]
Failed(message) == Returned(Err(InternalErrorCode, message), <<>>, "")

\* JavaScript truthiness of an optional imageBase64 string
TruthyData(o) == IsSome(o) /\ The(o) # <<>>

\* `.` of a regular expression matches no line terminator
NoLineBreak(s) == \A i \in 1..Len(s) : s[i] # "<LF>"

\* imageBase64.match(/^data:(.+);base64,(.+)$/): both groups are non-empty and
\* greedy, so the first group runs up to the last separator that leaves a
\* second group.
DataUrlMatch(s) ==
    LET splits == {i \in 3..(Len(s) - 1) :
                      s[1] = "data:" /\ s[i] = ";base64," /\ NoLineBreak(s)}
    IN IF splits = {} THEN None
       ELSE LET i == CHOOSE j \in splits : \A k \in splits : j >= k
            IN Some([mimeType |-> SubSeq(s, 2, i - 1), data |-> SubSeq(s, i + 1, Len(s))])

\* The defaults written into generateText, temperature and topP in
\* hundredths.
DefaultTemperature == 70
DefaultMaxTokens == 2048
DefaultTopK == 40
DefaultTopP == 95

\* JavaScript's `value || fallback` on an optional number: undefined and 0
\* are both falsy.
OrDefault(value, fallback) ==
    IF IsSome(value) /\ The(value) # 0 THEN The(value) ELSE fallback

\* the generationConfig object generateText builds
generationConfig(a) ==
    [temperature |-> OrDefault(a.temperature, DefaultTemperature),
     maxOutputTokens |-> OrDefault(a.maxTokens, DefaultMaxTokens),
     topK |-> OrDefault(a.topK, DefaultTopK),
     topP |-> OrDefault(a.topP, DefaultTopP)]

\* generateText up to its await, by what it sends.
generateTextCall(args) ==
    IF args = None THEN Failed("TypeError")
    ELSE LET a == The(args)
             model == IF Truthy(a.model) THEN The(a.model) ELSE DefaultModel
         IN IF model \notin GEMINI_MODELS
            THEN Failed("Unknown model")
            ELSE CalledWithConfig("generateContent", model, <<TextPart(a.prompt)>>,
                                  Some(generationConfig(a)))

\* the image part analyzeImage prepares
imagePart(a) ==
    IF Truthy(a.imageUrl) THEN UrlPart(a.imageUrl)
    ELSE IF TruthyData(a.imageBase64)
         THEN LET matches == DataUrlMatch(The(a.imageBase64))
              IN IF matches # None
                 THEN InlinePart(The(matches).mimeType, The(matches).data)
                 ELSE InlinePart(<<"image/jpeg">>, The(a.imageBase64))
         ELSE UndefinedPart

analyzeImageCall(args) ==
    IF args = None THEN Failed("TypeError")
    ELSE LET a == The(args)
             model == IF Truthy(a.model) THEN The(a.model) ELSE DefaultModel
         IN Called("generateContent", model, <<TextPart(a.prompt), imagePart(a)>>)

countTokensCall(args) ==
    IF args = None THEN Failed("TypeError")
    ELSE LET a == The(args)
             model == IF Truthy(a.model) THEN The(a.model) ELSE DefaultModel
         IN Called("countTokens", model, <<TextPart(a.text)>>)

embedTextCall(args) ==
    IF args = None THEN Failed("TypeError")
    ELSE LET a == The(args)
             model == IF Truthy(a.model) THEN The(a.model) ELSE "text-embedding-004"
         IN Called("embedContent", model, <<TextPart(a.text)>>)

\* A filter predicate whose default case rejects.
MatchesFilterOrNothing(info, filter) ==
    CASE filter = "thinking" -> info.thinking # None /\ info.thinking = Some(TRUE)
      [] filter = "vision" -> "function_calling" \in info.features
      [] filter = "grounding" -> "grounding" \in info.features
      [] filter = "json_mode" -> "json_mode" \in info.features
      [] OTHER -> FALSE

\* the switch inside models.filter
MatchesFilter(info, filter) ==
    CASE filter = "thinking" -> info.thinking # None /\ info.thinking = Some(TRUE)
      [] filter = "vision" -> "function_calling" \in info.features
      [] filter = "grounding" -> "grounding" \in info.features
      [] filter = "json_mode" -> "json_mode" \in info.features
      [] OTHER -> TRUE

\* modelList.map(name)
RECURSIVE NamesOf(_)
NamesOf(entries) ==
    IF entries = <<>> THEN <<>> ELSE <<Head(entries).name>> \o NamesOf(Tail(entries))

listModelsCall(args) ==
    LET filter == IF args # None /\ Truthy(The(args).filter) THEN The(The(args).filter) ELSE "all"
        Keep(info) == filter = "all" \/ MatchesFilter(info, filter)
    IN Returned(None, NamesOf(SelectSeq(ModelCatalog, Keep)), filter)

\* the switch of handleToolCall
ToolOutcome(name, args) ==
    CASE name = "generate_text" -> generateTextCall(args)
      [] name = "analyze_image" -> analyzeImageCall(args)
      [] name = "count_tokens" -> countTokensCall(args)
      [] name = "list_models" -> listModelsCall(args)
      [] name = "embed_text" -> embedTextCall(args)

\* The tools/call under the lens reaches its handler, which runs up to its
\* await or its return.
CallTool ==
    /\ probe.tool \in EnhancedTools
    /\ ~probe.handled
    /\ probe' = [probe EXCEPT !.handled = TRUE,
                              !.called = ToolOutcome(probe.tool, probe.args).called,
                              !.request = ToolOutcome(probe.tool, probe.args).request,
                              !.response = ToolOutcome(probe.tool, probe.args).response]
    /\ UNCHANGED <<serverVars, bootVars, wireVars>>

\* A tools/call naming one of the five tools is about to be dispatched.
HandlerInit ==
    /\ ServerConstructed /\ variant = "enhanced"
    /\ Booted
    /\ WireIdle
    /\ \E name \in EnhancedTools : \E args \in ToolArguments(name) :
          probe = [NoProbe EXCEPT !.tool = name, !.args = args]
HandlerNext == CallTool
HandlerSpec == HandlerInit /\ [][HandlerNext]_vars

(***************************************************************************)
(* Properties of the tool handlers.                                        *)
(***************************************************************************)
Handled(tool) == probe.handled /\ probe.tool = tool
ProviderTools == {"generate_text", "analyze_image", "count_tokens", "embed_text"}

\* The arguments satisfy the tool's input schema as far as its required
\* members and its model enumeration go.
SchemaValid(tool, args) ==
    /\ args # None
    /\ \A f \in RequiredFields(tool) : The(args)[f] # None
    /\ The(args).model # None => The(The(args).model) \in ModelEnum(tool)

RejectedWithoutCall ==
    /\ ~probe.called
    /\ probe.response # None
    /\ The(probe.response).error # None

\* C12 as stated: a tools/call whose arguments omit a required member or
\* give a model outside the declared enumeration gets an error response and
\* the provider is never called for it.
C12_InvalidArgumentsRejected ==
    \A tool \in ProviderTools :
        (Handled(tool) /\ ~SchemaValid(tool, probe.args)) => RejectedWithoutCall

ImageSourcesGiven ==
    Cardinality({f \in {"imageUrl", "imageBase64"} : The(probe.args)[f] # None})

\* C13 as stated: an analyze_image call giving neither or both image
\* sources gets an error with code -32603 and makes no provider call; only a
\* call with exactly one of them reaches the provider.
C13_ExactlyOneImageSource ==
    (Handled("analyze_image") /\ probe.args # None) =>
        /\ ImageSourcesGiven # 1 =>
              /\ RejectedWithoutCall
              /\ The(The(probe.response).error).code = InternalErrorCode
        /\ probe.called => ImageSourcesGiven = 1

\* The model names list_models is to return for a filter argument: the
\* catalog entries flagged thinking, those listing grounding, those listing
\* json_mode; every catalog model accepts images; anything else is no filter.
AllModelNames ==
    <<"gemini-2.5-pro", "gemini-2.5-flash", "gemini-2.5-flash-lite", "gemini-2.0-flash",
      "gemini-2.0-flash-lite", "gemini-2.0-pro-experimental", "gemini-1.5-pro",
      "gemini-1.5-flash">>
ExpectedModels(filter) ==
    CASE filter = Some("thinking") ->
           <<"gemini-2.5-pro", "gemini-2.5-flash", "gemini-2.5-flash-lite">>
      [] filter = Some("grounding") ->
           <<"gemini-2.5-pro", "gemini-2.5-flash", "gemini-2.0-flash",
             "gemini-2.0-pro-experimental">>
      [] OTHER -> AllModelNames

\* C16: list_models returns exactly the catalog entries satisfying the
\* named capability, in catalog order; without a filter, with 'all' or with
\* an unrecognized filter it returns the whole catalog; the reported count is
\* the number of models returned.
C16_ListModelsFilter ==
    Handled("list_models") =>
        /\ ~probe.called
        /\ probe.response # None
        /\ The(probe.response).error = None
        /\ The(probe.response).models =
              ExpectedModels(IF probe.args = None THEN None ELSE The(probe.args).filter)
        /\ The(probe.response).count = Len(The(probe.response).models)

\* C16 witness: list_models was called with the thinking filter and
\* returned the three thinking models, and the count 3.
C16_Witness ==
    /\ Handled("list_models")
    /\ probe.args # None
    /\ The(probe.args).filter = Some("thinking")
    /\ The(probe.response).models =
          <<"gemini-2.5-pro", "gemini-2.5-flash", "gemini-2.5-flash-lite">>
    /\ The(probe.response).count = 3

\* The strings of the form data:<mimeType>;base64,<payload>: the prefix, a
\* mime type, the separator, and a payload of base64 characters that may be
\* broken into lines.
IsDataUrl(s, i) ==
    /\ i \in 3..(Len(s) - 1)
    /\ s[1] = "data:"
    /\ s[i] = ";base64,"
    /\ \A k \in 2..(i - 1) : s[k] = "image/png"
    /\ s[i + 1] = "AAAA"
    /\ \A k \in (i + 1)..Len(s) : s[k] \in {"AAAA", "<LF>"}

\* C17 as stated: inline data of the form data:<mimeType>;base64,<payload>
\* reaches the provider as an inline part with that mime type and that
\* payload; inline data without the data: prefix reaches it whole, with
\* mime type image/jpeg.
C17_InlineImagePart ==
    (/\ Handled("analyze_image")
     /\ probe.args # None
     /\ The(probe.args).imageUrl = None
     /\ TruthyData(The(probe.args).imageBase64)) =>
        LET s == The(The(probe.args).imageBase64)
        IN /\ probe.called
           /\ \A i \in 1..Len(s) :
                 IsDataUrl(s, i) =>
                     The(probe.request).parts[2] =
                         InlinePart(SubSeq(s, 2, i - 1), SubSeq(s, i + 1, Len(s)))
           /\ s[1] # "data:" =>
                 The(probe.request).parts[2] = InlinePart(<<"image/jpeg">>, s)

(***************************************************************************)
(* Module startup: the lines after the class in each entry file.           *)
(***************************************************************************)
\* What GEMINI_API_KEY may hold: unset, empty, or a key.
ApiKeys == {None, Some(""), Some("key")}

\* A startup that constructs the server whatever the credential is.
StartupPhaseUnchecked(key) == "serving"

\* if (!apiKey) { ...; process.exit(1) } ; new Server(apiKey)
StartupPhase(key) == IF ~Truthy(key) THEN "exited" ELSE "serving"

Startup ==
    /\ phase = "boot"
    /\ phase' = StartupPhase(apiKey)
    /\ exitStatus' = IF phase' = "exited" THEN Some(1) ELSE None
    /\ UNCHANGED <<apiKey, serverVars, probe, wireVars>>

\* Once constructed, the server runs as in Spec.
Serve == phase = "serving" /\ Next

\* The process has been started and no statement of the entry file has run.
BootInit ==
    /\ ServerConstructed
    /\ apiKey \in ApiKeys
    /\ phase = "boot"
    /\ exitStatus = None
    /\ ProbeIdle
    /\ WireIdle

BootNext == Startup \/ Serve
BootSpec == BootInit /\ [][BootNext]_vars /\ WF_vars(Startup)

\* Nothing has been read, dispatched, sent to the provider or written.
Untouched ==
    /\ requests = <<>>
    /\ calls = <<>>
    /\ microQ = <<>>
    /\ output = <<>>
    /\ conversations = <<>>

\* C18: when GEMINI_API_KEY is absent the process exits with a non-zero
\* status and the server is never constructed: no message is read or
\* dispatched, no provider call is made, no response is written.
C18_NoCredentialNoServer ==
    /\ [](apiKey = None =>
            /\ phase # "serving"
            /\ Untouched
            /\ (phase = "exited" => (exitStatus # None /\ The(exitStatus) # 0)))
    /\ (apiKey = None /\ phase = "boot") ~> (phase = "exited")

\* C18 witness: started without the credential, the process has exited
\* with status 1.
C18_Witness ==
    /\ apiKey = None
    /\ phase = "exited"
    /\ exitStatus = Some(1)

(***************************************************************************)
(* The stdin stream and its decoding.  The stream is a sequence of UTF-16  *)
(* code units as readline sees them after UTF-8 decoding; the header line   *)
(* of a frame is kept as one unit carrying its number.                     *)
(***************************************************************************)
\* most lines (enhanced) or frames (legacy) in one stream
MaxItems == 2

Unit(c) == [c |-> c, n |-> 0]
Header(n) == [c |-> "Content-Length: ", n |-> n]
LF == Unit("<LF>")
CRLF == Unit("<CR><LF>")
LS == Unit("<U+2028>")
Space == Unit(" ")
Open == Unit("{\"text\":\"")
Close == Unit("\"}")

\* Buffer.from(s, 'utf-8').length of one code unit
Utf8Length(u) ==
    CASE u.c = "é" -> 2
      [] u.c = "<U+2028>" -> 3
      [] OTHER -> 1

RECURSIVE ByteLength(_)
ByteLength(str) == IF str = <<>> THEN 0 ELSE Utf8Length(Head(str)) + ByteLength(Tail(str))

\* The string values an envelope may carry, as sequences of characters: plain
\* ASCII, a newline inside, non-ASCII characters, a line separator inside.
Texts == { <<"a">>, <<"a", "<LF>", "a">>, <<"é">>, <<"é", "é">>, <<"a", "<U+2028>", "a">> }
Envelope(text) == [kind |-> "object", text |-> text]
\* the value of the JSON text null
JsonNull == [kind |-> "null", text |-> <<>>]

\* JSON.stringify of a string's characters: a newline becomes the two units
\* backslash and n; every other character of Texts is written as it is.
RECURSIVE Escape(_)
Escape(text) ==
    IF text = <<>> THEN <<>>
    ELSE (IF Head(text) = "<LF>" THEN <<Unit("\\"), Unit("n")>> ELSE <<Unit(Head(text))>>)
         \o Escape(Tail(text))
Stringify(env) == <<Open>> \o Escape(env.text) \o <<Close>>

\* The inverse on the units between the quotes; None where JSON.parse throws
\* (a backslash not followed by n, a raw control character, a quote or brace
\* inside).
RECURSIVE Unescape(_)
Unescape(str) ==
    IF str = <<>> THEN Some(<<>>)
    ELSE IF Head(str).c = "\\"
         THEN IF Len(str) >= 2 /\ str[2].c = "n" /\ Unescape(SubSeq(str, 3, Len(str))) # None
              THEN Some(<<"<LF>">> \o The(Unescape(SubSeq(str, 3, Len(str)))))
              ELSE None
         ELSE IF Head(str).c \in {"a", "n", "é", "<U+2028>"} /\ Unescape(Tail(str)) # None
              THEN Some(<<Head(str).c>> \o The(Unescape(Tail(str))))
              ELSE None

\* JSON white space at either end is skipped by JSON.parse and by trim().
IsWhite(u) == u \in {Space, LF, CRLF}
RECURSIVE TrimLeft(_)
TrimLeft(str) == IF str # <<>> /\ IsWhite(Head(str)) THEN TrimLeft(Tail(str)) ELSE str
RECURSIVE TrimRight(_)
TrimRight(str) ==
    IF str # <<>> /\ IsWhite(str[Len(str)]) THEN TrimRight(SubSeq(str, 1, Len(str) - 1)) ELSE str
Trim(str) == TrimRight(TrimLeft(str))

\* JSON.parse: Some(value), or None where it throws.
JsonParse(str) ==
    LET t == Trim(str)
    IN IF t = <<Unit("null")>> THEN Some(JsonNull)
       ELSE IF Len(t) >= 2 /\ t[1] = Open /\ t[Len(t)] = Close
          /\ Unescape(SubSeq(t, 2, Len(t) - 1)) # None
       THEN Some(Envelope(The(Unescape(SubSeq(t, 2, Len(t) - 1)))))
       ELSE None

\* EnhancedStdioMCPServer.sendResponse: the JSON text and a newline
EncodeLine(env) == Stringify(env) \o <<LF>>

\* StdioMCPServer.sendResponse: the header with the UTF-8 byte count, a blank
\* line, the body, no trailing newline
EncodeFrame(env) == <<Header(ByteLength(Stringify(env))), CRLF, CRLF>> \o Stringify(env)

\* What a peer writes: under the newline framing an envelope, a blank line,
\* a line of white space, a line that is not JSON or the line null; under the
\* length-prefixed framing an envelope.
Item(kind, text) == [kind |-> kind, text |-> text]
EnvelopeItems == {Item("envelope", t) : t \in Texts}
LineItems == EnvelopeItems \cup {Item(k, <<>>) : k \in {"blank", "space", "garbage", "null"}}
ItemsOf(v) == IF v = "enhanced" THEN LineItems ELSE EnvelopeItems
Streams(v) == UNION {[1..n -> ItemsOf(v)] : n \in 1..MaxItems}

ItemUnits(v, item) ==
    IF v = "legacy" THEN EncodeFrame(Envelope(item.text))
    ELSE CASE item.kind = "envelope" -> EncodeLine(Envelope(item.text))
           [] item.kind = "blank" -> <<LF>>
           [] item.kind = "space" -> <<Space, LF>>
           [] item.kind = "null" -> <<Unit("null"), LF>>
           [] OTHER -> <<Open, Unit("a"), LF>>

\* the code units on stdin
RECURSIVE Wire(_, _)
Wire(v, its) == IF its = <<>> THEN <<>> ELSE ItemUnits(v, Head(its)) \o Wire(v, Tail(its))

\* readline's line endings
IsLineEnding(u, eol) == u \in {LF, CRLF} \/ (eol /\ u = LS)

\* The 'line' handler of the enhanced server.
EnhancedOnLine(line, out) ==
    IF Trim(line) # <<>> /\ JsonParse(line) # None
    THEN Append(out, The(JsonParse(line)))
    ELSE out

\* first index where /Content-Length: (\d+)\r?\n\r?\n/ matches, or 0
HeaderMatch(buf) ==
    LET hits == {i \in 1..(Len(buf) - 2) :
                    buf[i].c = "Content-Length: " /\ buf[i + 1] = LF /\ buf[i + 2] = LF}
    IN IF hits = {} THEN 0 ELSE CHOOSE i \in hits : \A j \in hits : i <= j

\* StdioMCPServer.tryParseMessage: lengths and slices count code units.
RECURSIVE tryParseMessage(_, _)
tryParseMessage(buf, out) ==
    LET index == HeaderMatch(buf) - 1
        contentLength == buf[index + 1].n
        headerLength == 3
        totalLength == index + headerLength + contentLength
        message == SubSeq(buf, index + headerLength + 1, totalLength)
        rest == SubSeq(buf, totalLength + 1, Len(buf))
        out2 == IF JsonParse(message) # None THEN Append(out, The(JsonParse(message))) ELSE out
    IN IF HeaderMatch(buf) = 0 THEN [buffer |-> buf, dispatched |-> out]
       ELSE IF Len(buf) < totalLength THEN [buffer |-> buf, dispatched |-> out]
       ELSE IF Len(rest) > 0 THEN tryParseMessage(rest, out2)
       ELSE [buffer |-> rest, dispatched |-> out2]

\* The 'line' handler of the legacy server.
LegacyOnLine(line, buf, out) == tryParseMessage(buf \o line \o <<LF>>, out)

\* readline hands one line to the server's handler.  handleRequest called
\* with null returns a rejected promise that nobody handles.
EmitLine(line) ==
    /\ IF variant = "enhanced"
       THEN /\ dispatched' = EnhancedOnLine(line, dispatched)
            /\ buffer' = buffer
       ELSE /\ dispatched' = LegacyOnLine(line, buffer, dispatched).dispatched
            /\ buffer' = LegacyOnLine(line, buffer, dispatched).buffer
    /\ pendingRejection' =
          (pendingRejection
             \/ \E k \in (Len(dispatched) + 1)..Len(dispatched') : dispatched'[k].kind = "null")

\* the server fields a line handler leaves alone in this specification
handlerFrame == <<variant, requests, calls, microQ, output, conversations, settled, crashed>>

\* readline takes the next code unit of stdin.
ReadUnit ==
    /\ ~crashed
    /\ ~eof
    /\ pos < Len(Wire(variant, items))
    /\ pos' = pos + 1
    /\ LET u == Wire(variant, items)[pos + 1]
       IN IF IsLineEnding(u, unicodeEol)
          THEN EmitLine(lineBuffer) /\ lineBuffer' = <<>>
          ELSE lineBuffer' = Append(lineBuffer, u)
               /\ UNCHANGED <<buffer, dispatched, pendingRejection>>
    /\ UNCHANGED <<unicodeEol, items, eof, handlerFrame, bootVars, probe>>

\* stdin ends: readline emits what is left of the last line.
EndOfInput ==
    /\ ~crashed
    /\ ~eof
    /\ pos = Len(Wire(variant, items))
    /\ eof' = TRUE
    /\ IF lineBuffer # <<>>
       THEN EmitLine(lineBuffer) /\ lineBuffer' = <<>>
       ELSE UNCHANGED <<lineBuffer, buffer, dispatched, pendingRejection>>
    /\ UNCHANGED <<unicodeEol, items, pos, handlerFrame, bootVars, probe>>

\* A peer has written a stream; nothing of it has been read.
WireInit ==
    /\ ServerConstructed
    /\ Booted
    /\ ProbeIdle
    /\ unicodeEol \in BOOLEAN
    /\ items \in Streams(variant)
    /\ pos = 0
    /\ eof = FALSE
    /\ lineBuffer = <<>>
    /\ buffer = <<>>
    /\ dispatched = <<>>

WireNext == ReadUnit \/ EndOfInput \/ ProcessRejections
WireSpec == WireInit /\ [][WireNext]_vars

(***************************************************************************)
(* Properties of the framings.                                             *)
(***************************************************************************)
AllRead == pos = Len(Wire(variant, items))
OnlyEnvelopes == \A k \in 1..Len(items) : items[k].kind = "envelope"

\* the values the lines or frames of a stream hold, in order
RECURSIVE ValuesOf(_)
ValuesOf(its) ==
    IF its = <<>> THEN <<>>
    ELSE (CASE Head(its).kind = "envelope" -> <<Envelope(Head(its).text)>>
            [] Head(its).kind = "null" -> <<JsonNull>>
            [] OTHER -> <<>>)
         \o ValuesOf(Tail(its))

\* C14 as stated: the bytes sendResponse of the enhanced server writes for
\* an envelope, fed to the line decoder, yield exactly that one envelope.
C14_LineRoundTrip ==
    (variant = "enhanced" /\ Len(items) = 1 /\ OnlyEnvelopes /\ AllRead) =>
        dispatched = <<Envelope(items[1].text)>>

\* C15 as stated: the bytes sendResponse of the legacy server writes for
\* one envelope, or for two back to back, fed to the length-prefixed decoder
\* until the stream ends, yield exactly these envelopes in order and leave no
\* frame behind in the buffer.
C15_FrameRoundTrip ==
    (variant = "legacy" /\ eof) =>
        /\ dispatched = ValuesOf(items)
        /\ HeaderMatch(buffer) = 0

\* the first k lines or frames of the stream
FirstItems(k) == SubSeq(items, 1, k)
\* the number of code units they take on stdin
EndOf(k) == Len(Wire(variant, FirstItems(k)))

\* C19 as stated: under the newline framing blank lines, white-space lines
\* and lines that are not JSON are passed over, and the server goes on: when
\* the first k lines have been read, the values dispatched are those of the
\* well-formed lines among them, in order, each once; and the server does not
\* stop while lines are left.
C19_MalformedLinesSkipped ==
    variant = "enhanced" =>
        /\ \A k \in 0..Len(items) : pos = EndOf(k) => dispatched = ValuesOf(FirstItems(k))
        /\ crashed => dispatched = ValuesOf(items)

\* every body has as many UTF-8 bytes as code units
AsciiBodies ==
    \A k \in 1..Len(items) :
        ByteLength(Stringify(Envelope(items[k].text))) = Len(Stringify(Envelope(items[k].text)))

\* C20 as stated, for frames whose bodies are ASCII: once the last unit of
\* the k-th frame has been read, the bodies of the first k frames have been
\* dispatched, in order, each once, and the buffer holds no complete frame.
C20_FrameDispatchedOnArrival ==
    (variant = "legacy" /\ AsciiBodies) =>
        /\ \A k \in 1..Len(items) :
              pos >= EndOf(k) =>
                  /\ Len(dispatched) >= k
                  /\ SubSeq(dispatched, 1, k) = ValuesOf(FirstItems(k))
        /\ Len(dispatched) <= Len(items)
        /\ HeaderMatch(buffer) # 0 =>
              Len(buffer) < HeaderMatch(buffer) + 2 + buffer[HeaderMatch(buffer)].n

(***************************************************************************)
(* Provider calls in flight.                                               *)
(***************************************************************************)
InFlight(r) == r \in DOMAIN calls /\ calls[r].status = "awaiting"

\* C21 as stated: a call in flight neither blocks the input nor is it
\* abandoned, whatever arrives meanwhile: a later message that needs no
\* provider call is answered while the earlier call is still in flight, the
\* process is alive as long as a call is in flight, and a call that has
\* settled has been answered.
C21_InFlightCallSurvives ==
    /\ \A r \in DOMAIN calls : InFlight(r) => ~crashed
    /\ \A r \in DOMAIN calls : \A later \in Received :
          (/\ InFlight(r)
           /\ later > r
           /\ CarriesId(later)
           /\ requests[later].method # "tools/call") => AnswersTo(later) # {}
    /\ \A r \in DOMAIN calls : ~InFlight(r) => AnswersTo(r) # {}

(***************************************************************************)
(* Shape of the session histories.                                         *)
(***************************************************************************)
\* C22: session histories are append-only: in every step each stored
\* history stays a prefix of what is stored afterwards, and no session
\* leaves the store.
C22_HistoriesAppendOnly ==
    [][\A c \in DOMAIN conversations :
          /\ c \in DOMAIN conversations'
          /\ Len(conversations'[c]) >= Len(conversations[c])
          /\ SubSeq(conversations'[c], 1, Len(conversations[c])) = conversations[c]]_vars

\* C22 witness: a session that already held turns has been appended to.
C22_Witness ==
    \E c \in DOMAIN conversations :
        /\ Len(conversations[c]) >= 4
        /\ Cardinality({r \in DOMAIN calls :
                           calls[r].status = "succeeded" /\ calls[r].conv = Some(c)}) >= 2

IsPromptTurn(turn) == turn.text[1] = "prompt"
IsReplyTurn(turn) == turn.text[1] = "reply"
RoleFits(turn) ==
    /\ IsPromptTurn(turn) => turn.role = Some("user")
    /\ IsReplyTurn(turn) => turn.role = Some("model")

\* C23 as stated: every stored turn and every turn sent to the provider
\* as conversation context carries a role, user for a turn built from the
\* prompt and model for a turn built from the reply.
C23_TurnsCarryRole ==
    variant = "enhanced" =>
        /\ \A c \in DOMAIN conversations :
              \A i \in 1..Len(conversations[c]) : RoleFits(conversations[c][i])
        /\ \A r \in DOMAIN calls :
              calls[r].tool = "generate_text" =>
                  \A i \in 1..Len(calls[r].contents) : RoleFits(calls[r].contents[i])

\* the user turn of call r is stored with its model turn right after it
ExchangeStored(hist, r) ==
    \E i \in 1..(Len(hist) - 1) : hist[i] = UserTurn(r) /\ hist[i + 1] = ModelTurn(r)
SucceededOn(r, c) ==
    /\ variant = "enhanced"
    /\ calls[r].tool = "generate_text"
    /\ calls[r].conv = Some(c)
    /\ calls[r].status = "succeeded"

\* C24: no successful call's turns are lost: for every generate call that
\* named a session and succeeded, concurrent with another one or not, the
\* session's history holds that call's user turn with its model turn directly
\* after it.
C24_NoLostTurns ==
    \A r \in DOMAIN calls : \A c \in ConvIds :
        SucceededOn(r, c) => (c \in DOMAIN conversations /\ ExchangeStored(conversations[c], r))

\* C24 witness: two generate calls on one session were in flight together
\* (the second was dispatched before the first settled, and settled first),
\* both succeeded, and the history holds both exchanges.
C24_Witness ==
    \E c \in ConvIds :
        /\ {1, 2} \subseteq DOMAIN calls
        /\ SucceededOn(1, c) /\ SucceededOn(2, c)
        /\ settled = <<2, 1>>
        /\ ExchangeStored(conversations[c], 1)
        /\ ExchangeStored(conversations[c], 2)

\* C25: every stored history is non-empty, of even length, and alternates
\* prompt turn, reply turn, from a prompt turn to a reply turn.
C25_HistoriesAlternate ==
    \A c \in DOMAIN conversations :
        /\ Len(conversations[c]) > 0
        /\ Len(conversations[c]) % 2 = 0
        /\ \A i \in 1..Len(conversations[c]) :
              IF i % 2 = 1 THEN IsPromptTurn(conversations[c][i])
                           ELSE IsReplyTurn(conversations[c][i])

\* C25 witness: a generate call that was sent stored turns as context has
\* succeeded, and its session holds at least two exchanges.
C25_Witness ==
    \E c \in DOMAIN conversations :
        /\ Len(conversations[c]) >= 4
        /\ \E r \in DOMAIN calls : SucceededOn(r, c) /\ Len(calls[r].contents) > 1

\* C26: the store changes only when a generate call naming a session
\* succeeds, and then only at that session's key.
C26_StoreFrame ==
    [][conversations' # conversations =>
          \E r \in DOMAIN calls :
              /\ Succeeding(r)
              /\ SessionCall(r)
              /\ DOMAIN conversations' = DOMAIN conversations \cup {The(calls[r].conv)}
              /\ \A c \in DOMAIN conversations :
                    c # The(calls[r].conv) => conversations'[c] = conversations[c]]_vars

\* C26 witness: a generate call without conversationId and a call of
\* another tool have succeeded and the store is empty, or a generate call on
\* one session has succeeded while another session is stored untouched.
C26_Witness ==
    \/ /\ conversations = <<>>
       /\ \E r \in DOMAIN calls :
             /\ calls[r].tool = "generate_text"
             /\ calls[r].conv = None
             /\ calls[r].status = "succeeded"
             /\ variant = "enhanced"
       /\ \E r \in DOMAIN calls :
             calls[r].tool # "generate_text" /\ calls[r].status = "succeeded"
    \/ /\ DOMAIN conversations = ConvIds
       /\ \A c \in ConvIds : Len(conversations[c]) = 2

(***************************************************************************)
(* The advertised catalog against the dispatcher.                          *)
(***************************************************************************)
\* the names of the tool descriptors getAvailableTools returns
getAvailableTools ==
    {"generate_text", "analyze_image", "count_tokens", "list_models", "embed_text"}
\* the names in the tools/list result of the legacy server
LegacyTools == {"generate_text"}
\* what tools/list returns
AdvertisedTools(v) == IF v = "enhanced" THEN getAvailableTools ELSE LegacyTools

ToolCalls ==
    {r \in Received : /\ IsEnvelope(r)
                      /\ requests[r].method = "tools/call"
                      /\ requests[r].tool # None}
ToolOf(r) == The(requests[r].tool)
JobPending(r) == \E j \in 1..Len(microQ) : microQ[j].resp.req = r
UnknownToolAnswer(k) ==
    /\ output[k].error # None
    /\ The(output[k].error).code = MethodNotFoundCode
\* the request reached the handler of the tool it names: a provider call
\* was started for that tool, or the handler's own failure or result was (or
\* is about to be) written
RoutedToOwnHandler(r) ==
    /\ r \in DOMAIN calls => calls[r].tool = ToolOf(r)
    /\ r \notin DOMAIN calls =>
          /\ JobPending(r) \/ AnswersTo(r) # {}
          /\ \A k \in AnswersTo(r) :
                IF ToolOf(r) = "list_models" /\ variant = "enhanced"
                THEN output[k].result # None /\ The(output[k].result).text = <<"models">>
                ELSE output[k].error # None /\ The(output[k].error).code = InternalErrorCode

\* C27: the catalog and the dispatcher agree: a tools/call naming a tool
\* that tools/list does not return starts no provider call and is answered
\* with code -32601; a tools/call naming a returned tool is never answered
\* with -32601 and reaches the handler of that tool.
C27_CatalogMatchesDispatcher ==
    \A r \in ToolCalls :
        IF ToolOf(r) \in AdvertisedTools(variant)
        THEN /\ \A k \in AnswersTo(r) : ~UnknownToolAnswer(k)
             /\ RoutedToOwnHandler(r)
        ELSE /\ r \notin DOMAIN calls
             /\ JobPending(r) \/ AnswersTo(r) # {}
             /\ \A k \in AnswersTo(r) : UnknownToolAnswer(k)

\* C27 witness: a call naming a tool outside the catalog has been answered
\* with -32601 and a call naming a tool of the catalog has started that
\* tool's provider call.
C27_Witness ==
    /\ \E r \in ToolCalls :
          /\ ToolOf(r) \notin AdvertisedTools(variant)
          /\ \E k \in AnswersTo(r) : UnknownToolAnswer(k)
    /\ \E r \in ToolCalls :
          /\ ToolOf(r) \in AdvertisedTools(variant)
          /\ r \in DOMAIN calls
          /\ calls[r].tool = ToolOf(r)

(***************************************************************************)
(* Generation controls.                                                    *)
(***************************************************************************)
\* the value a control must reach the provider with: the supplied one, the
\* default only where none was supplied
Forwarded(value, fallback) == IF IsSome(value) THEN The(value) ELSE fallback

\* C28 as stated: a generation control the caller supplies reaches the
\* provider unchanged, a supplied 0 included, and the default is used only
\* when the control is absent.
C28_ControlsForwarded ==
    (Handled("generate_text") /\ probe.called) =>
        LET a == The(probe.args)
            sent == The(The(probe.request).config)
        IN /\ sent.temperature = Forwarded(a.temperature, DefaultTemperature)
           /\ sent.maxOutputTokens = Forwarded(a.maxTokens, DefaultMaxTokens)
           /\ sent.topK = Forwarded(a.topK, DefaultTopK)
           /\ sent.topP = Forwarded(a.topP, DefaultTopP)

====
